---- MODULE Spec2Model ----
(***************************************************************************)
(* Nexus: the streaming orchestrator (backend/nexus_core.py), the model    *)
(* router (backend/model_router.py) and the SQLite conversation store      *)
(* (backend/chat_manager.py), as state machines.                           *)
(*                                                                         *)
(* Text is a sequence of characters, so that concatenation is \o.          *)
(***************************************************************************)
EXTENDS Integers, Sequences, FiniteSets, TLC

VARIABLES
    conversation_history,  \* NexusCore.conversation_history
    current_model,         \* NexusCore.current_model
    calls,                 \* the generate_response generators, by call
    linesLeft,             \* lines the backend may still deliver (bound)
    db,                    \* the committed content of the SQLite file
    conns,                 \* the ChatManager operations in flight, by connection
    wlock,                 \* the connection holding SQLite's write lock, or 0
    clock,                 \* CURRENT_TIMESTAMP, in seconds
    router,                \* a ModelRouter: its registry and what it returned
    probe                  \* a check_ollama_status call

vars == <<conversation_history, current_model, calls, linesLeft,
          db, conns, wlock, clock, router, probe>>
auxVars == <<router, probe>>
genVars == <<conversation_history, current_model, calls, linesLeft>>
storeVars == <<db, conns, wlock, clock>>

\* ------------------------------------------------------------------ bounds
MaxLines == 2

\* Two generators on the one NexusCore of api.py: a call and a concurrent
\* (or later) one.
Calls == {1, 2}

\* ------------------------------------------------------------ model router
TaskTypes == <<"code", "research", "planning", "quick", "general">>

NoModel == "none"

\* The descriptors a registry may hold, by key.
Descriptor(key) ==
    CASE key = "default" -> [key |-> key, name |-> "deepseek-v3.1:671b-cloud",
                             role |-> "Core Intelligence Brain"]
      [] key = "code" -> [key |-> key, name |-> "qwen2.5-coder", role |-> "Code Specialist"]
      [] key = "fast" -> [key |-> key, name |-> "llama3.2", role |-> "Quick Responder"]

\* config['ollama']['models']: the registry the server's router is built
\* with, a dict, its entries in insertion order.
models == <<Descriptor("default")>>

RegistryKeys == {"default", "code", "fast"}

\* The registries a ModelRouter may be built with: one or two entries.
Registries ==
    {<<Descriptor(k)>> : k \in RegistryKeys}
    \cup {<<Descriptor(x[1]), Descriptor(x[2])>> :
              x \in {y \in RegistryKeys \X RegistryKeys : y[1] # y[2]}}

Queries == {"hi", "write a python function to sort a list"}

\* The number of intent_patterns rules of each task type that re.search
\* finds in the query (the regular expressions evaluated by hand).
PatternMatches(query) ==
    CASE query = "hi" ->
           [code |-> 0, research |-> 0, planning |-> 0, quick |-> 1, general |-> 0]
      [] query = "write a python function to sort a list" ->
           [code |-> 2, research |-> 0, planning |-> 0, quick |-> 0, general |-> 0]
      [] query = "explain this code" ->
           [code |-> 1, research |-> 1, planning |-> 0, quick |-> 0, general |-> 0]
      [] query = "plan the research" ->
           [code |-> 0, research |-> 1, planning |-> 1, quick |-> 0, general |-> 0]
      [] query = "quick plan" ->
           [code |-> 0, research |-> 0, planning |-> 1, quick |-> 1, general |-> 0]
      [] query = "just explain the plan" ->
           [code |-> 0, research |-> 1, planning |-> 1, quick |-> 1, general |-> 0]
      [] query = "compare rust and go code, explain the steps" ->
           [code |-> 2, research |-> 1, planning |-> 1, quick |-> 0, general |-> 0]
      [] OTHER ->
           [code |-> 0, research |-> 0, planning |-> 0, quick |-> 0, general |-> 0]

RECURSIVE MaxOf(_)
MaxOf(S) ==
    LET x == CHOOSE y \in S : TRUE
    IN  IF S = {x} THEN x
        ELSE LET m == MaxOf(S \ {x}) IN IF x > m THEN x ELSE m

LastMax(scores) ==
    LET max_score == MaxOf({scores[TaskTypes[i]] : i \in 1..Len(TaskTypes)})
        last == CHOOSE i \in 1..Len(TaskTypes) :
                   /\ scores[TaskTypes[i]] = max_score
                   /\ \A j \in (i + 1)..Len(TaskTypes) : scores[TaskTypes[j]] # max_score
    IN  IF max_score = 0 THEN "general" ELSE TaskTypes[last]

\* Lines 71-77: GENERAL when no pattern matched; else max(scores.items(),
\* key=...), which returns the first maximal item in the dict's insertion
\* order, the order of TaskType.
FirstMax(scores) ==
    LET max_score == MaxOf({scores[TaskTypes[i]] : i \in 1..Len(TaskTypes)})
        first == CHOOSE i \in 1..Len(TaskTypes) :
                   /\ scores[TaskTypes[i]] = max_score
                   /\ \A j \in 1..(i - 1) : scores[TaskTypes[j]] # max_score
    IN  IF max_score = 0 THEN "general" ELSE TaskTypes[first]

analyze_intent(query) == FirstMax(PatternMatches(query))

get_model_info_first(registry) == registry[1]

\* self.models.get('default') or next(iter(self.models.values()))
get_model_info(registry) ==
    IF \E i \in DOMAIN registry : registry[i].key = "default"
    THEN registry[CHOOSE i \in DOMAIN registry : registry[i].key = "default"]
    ELSE registry[1]

\* select_model of a router whose self.models is the registry.
select_model(registry, query) ==
    LET model_info == get_model_info(registry)
    IN  [name |-> model_info.name, role |-> model_info.role,
         task_type |-> analyze_intent(query)]

\* The queries a router is asked about, and the match counts a query may
\* have: up to MaxScore rules of each task type.
RouterQueries ==
    {"hi", "write a python function to sort a list", "the weather today",
     "explain this code", "plan the research", "quick plan",
     "just explain the plan", "compare rust and go code, explain the steps"}

MaxScore == 2

ScoreVectors ==
    {[code |-> a, research |-> b, planning |-> c, quick |-> d, general |-> 0] :
        a \in 0..MaxScore, b \in 0..MaxScore, c \in 0..MaxScore, d \in 0..MaxScore}

MaxRouted == 2

\* router.select_model(query), its result recorded.
RouterSelect(query) ==
    /\ Len(router.routed) < MaxRouted
    /\ router' = [router EXCEPT !.routed =
           Append(@, [query |-> query, result |-> select_model(router.models, query)])]
    /\ UNCHANGED <<conversation_history, current_model, calls, linesLeft,
                   db, conns, wlock, clock, probe>>

\* analyze_intent on a query with the given match counts (lines 71-77).
RouterClassify(scores) ==
    /\ router.classified = <<>>
    /\ router' = [router EXCEPT !.classified =
           <<[scores |-> scores, task_type |-> FirstMax(scores)]>>]
    /\ UNCHANGED <<conversation_history, current_model, calls, linesLeft,
                   db, conns, wlock, clock, probe>>

\* ------------------------------------------------------- backend lines
\* The reply the backend streams, one character per content frame, so that
\* every fragment of a reply is distinct.
Alphabet == <<"a", "b", "c", "d", "e", "f">>

\* One line of response.aiter_lines(): blank, not JSON, JSON of another
\* shape than an object with an object under 'message', or a frame; `sent`
\* is the text delivered so far.
Lines(sent) ==
    {[kind |-> k, hasMessage |-> FALSE, content |-> <<>>, done |-> FALSE] :
        k \in {"blank", "malformed", "badshape"}}
    \cup {[kind |-> "frame", hasMessage |-> TRUE, content |-> t, done |-> d] :
            t \in {<<>>, <<Alphabet[Len(sent) + 1]>>}, d \in BOOLEAN}
    \cup {[kind |-> "frame", hasMessage |-> FALSE, content |-> <<>>, done |-> d] :
            d \in BOOLEAN}

\* ---------------------------------------------------------- stream events
ModelSelected(sel) ==
    [type |-> "model_selected", model |-> sel.name, role |-> sel.role,
     task_type |-> sel.task_type]

Content(text, done) == [type |-> "content", content |-> text, done |-> done]

Complete(text, model) == [type |-> "complete", full_response |-> text, model |-> model]

Error(model) == [type |-> "error", model |-> model]

SystemPrompt == <<"S">>

Message(role, content) == [role |-> role, content |-> content]

FirstN(s, n) == IF Len(s) <= n THEN s ELSE SubSeq(s, 1, n)

LastN(s, n) == IF Len(s) <= n THEN s ELSE SubSeq(s, Len(s) - n + 1, Len(s))

HistoryWindow == 10

prepare_messages(history) ==
    <<Message("system", SystemPrompt)>> \o LastN(history, HistoryWindow)

\* ------------------------------------------------------- the generator
IdleCall ==
    [pc |-> "idle", query |-> "", model_name |-> NoModel, messages |-> <<>>,
     full_response |-> <<>>, chunk_done |-> FALSE, events |-> <<>>,
     client_open |-> FALSE, stream_open |-> FALSE,
     n_done |-> 0, last_done |-> FALSE, n_processed |-> 0, appended |-> 0,
     left_at |-> "none", n_malformed |-> 0, failed |-> "none", n_badshape |-> 0]
\* n_done: terminal frames delivered; last_done: the last line delivered was
\* one; n_processed: terminal frames whose done flag was reached (line 129);
\* appended: assistant turns this call appended; left_at: where the generator
\* stood when it ended; n_malformed: lines delivered that were not JSON;
\* failed: the network call failed, on "connect" or in the "stream";
\* n_badshape: lines delivered that were JSON of another shape.

\* The line is a terminal frame of the wire protocol: an object with done true.
IsTerminal(line) == line.kind = "frame" /\ line.done

\* Lines 119-121: the frame has a 'message' with non-empty 'content'.
HasText(line) == line.hasMessage /\ line.content # <<>>

TerminalFlagAlways(line) == TRUE

\* chunk.get('done', False), the test that commits the turn.
TerminalFlag(line) == line.done

SkipsNothing(line) == FALSE

SkipsAll(line) == line.kind \in {"malformed", "badshape"}

\* except json.JSONDecodeError: continue (lines 141-142): the line is one
\* json.loads rejects.
Skips(line) == line.kind = "malformed"

ReleaseNone(call) == call

\* The exits of async with client.stream(...) and async with
\* httpx.AsyncClient(...): the response and the client are closed.
Release(call) == [call EXCEPT !.stream_open = FALSE, !.client_open = FALSE]

\* The generator is suspended at a yield, the consumer holding the event.
AtYield(c) == calls[c].pc \in {"at_model_selected", "at_content", "at_complete", "at_error"}

\* The generator is suspended in an await on the network.
AtAwait(c) == calls[c].pc \in {"connecting", "reading"}

\* Lines 129-140: the frame's done flag; on it, the assistant turn is
\* appended and 'complete' is yielded. Returns the call and the history.
FinishChunk(call, history, done) ==
    IF done
    THEN [call |-> [call EXCEPT !.pc = "at_complete",
                                !.events = Append(@, Complete(call.full_response,
                                                              call.model_name))],
          history |-> Append(history, Message("assistant", call.full_response))]
    ELSE [call |-> [call EXCEPT !.pc = "reading"], history |-> history]

\* The call of a FinishChunk result, with the turns it appended counted.
Appended(r, history) ==
    [r.call EXCEPT !.appended = @ + Len(r.history) - Len(history)]

RaiseToErrorUnwinds(call) ==
    [call EXCEPT !.pc = "finished", !.left_at = "raised",
                 !.stream_open = FALSE, !.client_open = FALSE]

\* The except clause of lines 144-149: the stream is left, 'error' is yielded.
RaiseToError(call) ==
    [call EXCEPT !.pc = "at_error", !.stream_open = FALSE,
                 !.events = Append(@, Error(call.model_name))]

\* Lines 73-83: route the query, yield 'model_selected'.
GenStart(c, query) ==
    /\ calls[c].pc = "idle"
    /\ LET sel == select_model(models, query)
       IN  /\ current_model' = sel.name
           /\ calls' = [calls EXCEPT ![c] =
                  [@ EXCEPT !.pc = "at_model_selected", !.query = query,
                            !.model_name = sel.name,
                            !.events = <<ModelSelected(sel)>>]]
    /\ UNCHANGED <<conversation_history, linesLeft, storeVars, auxVars>>

\* Lines 85-110: the user turn is appended, the prompt built, the client
\* opened and the streaming request sent.
GenResumeSelected(c) ==
    /\ calls[c].pc = "at_model_selected"
    /\ conversation_history' =
           Append(conversation_history, Message("user", calls[c].query))
    /\ calls' = [calls EXCEPT ![c] =
           [@ EXCEPT !.pc = "connecting",
                     !.messages = prepare_messages(conversation_history'),
                     !.client_open = TRUE]]
    /\ UNCHANGED <<current_model, linesLeft, storeVars, auxVars>>

\* Lines 106-111: the response has opened.
GenConnectOk(c) ==
    /\ calls[c].pc = "connecting"
    /\ calls' = [calls EXCEPT ![c] =
           [@ EXCEPT !.pc = "reading", !.stream_open = TRUE, !.full_response = <<>>]]
    /\ UNCHANGED <<conversation_history, current_model, linesLeft, storeVars, auxVars>>

\* Lines 106, 144-149: the request failed or timed out.
GenConnectFail(c) ==
    /\ calls[c].pc = "connecting"
    /\ calls' = [calls EXCEPT ![c] = [RaiseToError(@) EXCEPT !.failed = "connect"]]
    /\ UNCHANGED <<conversation_history, current_model, linesLeft, storeVars, auxVars>>

\* Lines 113-142: one line of the stream.
GenLine(c, line) ==
    /\ calls[c].pc = "reading"
    /\ linesLeft > 0
    /\ linesLeft' = linesLeft - 1
    /\ LET call == [calls[c] EXCEPT !.n_done = @ + (IF IsTerminal(line) THEN 1 ELSE 0),
                                    !.last_done = IsTerminal(line),
                                    !.n_processed = @ + (IF IsTerminal(line) /\ ~HasText(line)
                                                         THEN 1 ELSE 0),
                                    !.n_malformed = @ + (IF line.kind = "malformed"
                                                         THEN 1 ELSE 0),
                                    !.n_badshape = @ + (IF line.kind = "badshape"
                                                        THEN 1 ELSE 0)]
       IN  CASE line.kind = "blank" \/ Skips(line) ->
                  /\ calls' = [calls EXCEPT ![c] = call]
                  /\ UNCHANGED conversation_history
             [] line.kind \in {"malformed", "badshape"} /\ ~Skips(line) ->
                  /\ calls' = [calls EXCEPT ![c] = RaiseToError(call)]
                  /\ UNCHANGED conversation_history
             [] line.kind = "frame" /\ HasText(line) ->
                  /\ calls' = [calls EXCEPT ![c] =
                         [call EXCEPT !.pc = "at_content",
                                      !.full_response = @ \o line.content,
                                      !.chunk_done = TerminalFlag(line),
                                      !.events = Append(@, Content(line.content, line.done))]]
                  /\ UNCHANGED conversation_history
             [] OTHER ->
                  LET r == FinishChunk(call, conversation_history, TerminalFlag(line))
                  IN  /\ calls' = [calls EXCEPT ![c] = Appended(r, conversation_history)]
                      /\ conversation_history' = r.history
    /\ UNCHANGED <<current_model, storeVars, auxVars>>

\* Line 123 resumed: the rest of the frame (lines 129-140).
GenResumeContent(c) ==
    /\ calls[c].pc = "at_content"
    /\ LET call == [calls[c] EXCEPT !.n_processed = @ + (IF calls[c].last_done THEN 1 ELSE 0)]
           r == FinishChunk(call, conversation_history, call.chunk_done)
       IN  /\ calls' = [calls EXCEPT ![c] = Appended(r, conversation_history)]
           /\ conversation_history' = r.history
    /\ UNCHANGED <<current_model, linesLeft, storeVars, auxVars>>

\* Line 136 resumed: the loop goes on to the next line.
GenResumeComplete(c) ==
    /\ calls[c].pc = "at_complete"
    /\ calls' = [calls EXCEPT ![c] = [@ EXCEPT !.pc = "reading"]]
    /\ UNCHANGED <<conversation_history, current_model, linesLeft, storeVars, auxVars>>

\* Line 113: the stream closed; the loop and the generator end.
GenStreamEnd(c) ==
    /\ calls[c].pc = "reading"
    /\ calls' = [calls EXCEPT ![c] =
           [@ EXCEPT !.pc = "finished", !.left_at = "reading",
                     !.stream_open = FALSE, !.client_open = FALSE]]
    /\ UNCHANGED <<conversation_history, current_model, linesLeft, storeVars, auxVars>>

\* Lines 113, 144-149: the connection failed or timed out mid-stream.
GenNetFail(c) ==
    /\ calls[c].pc = "reading"
    /\ calls' = [calls EXCEPT ![c] = [RaiseToError(@) EXCEPT !.failed = "stream"]]
    /\ UNCHANGED <<conversation_history, current_model, linesLeft, storeVars, auxVars>>

\* Line 145 resumed: the generator ends.
GenResumeError(c) ==
    /\ calls[c].pc = "at_error"
    /\ calls' = [calls EXCEPT ![c] = [@ EXCEPT !.pc = "finished", !.left_at = "at_error",
                                                 !.client_open = FALSE]]
    /\ UNCHANGED <<conversation_history, current_model, linesLeft, storeVars, auxVars>>

\* The consumer drops the generator (aclose, or cancellation of the task
\* awaiting it): GeneratorExit or CancelledError unwinds it through both
\* async with blocks, past except Exception.
GenAbandon(c) ==
    /\ AtYield(c) \/ AtAwait(c)
    /\ calls' = [calls EXCEPT ![c] =
           [Release(@) EXCEPT !.pc = "closed", !.left_at = calls[c].pc]]
    /\ UNCHANGED <<conversation_history, current_model, linesLeft, storeVars, auxVars>>

MaxHistory == 11

\* The session's consumer, done with a call, makes its next generate call
\* (the next message of a /ws connection, lines 255-263 of api.py).
GenAgain(c) ==
    /\ calls[c].pc \in {"finished", "closed"}
    /\ Len(conversation_history) < MaxHistory
    /\ calls' = [calls EXCEPT ![c] = IdleCall]
    /\ UNCHANGED <<conversation_history, current_model, linesLeft, storeVars, auxVars>>

reset_conversation_oldest ==
    /\ conversation_history # <<>>
    /\ conversation_history' = Tail(conversation_history)
    /\ UNCHANGED <<current_model, calls, linesLeft, storeVars, auxVars>>

\* Lines 207-209.
reset_conversation ==
    /\ conversation_history # <<>>
    /\ conversation_history' = <<>>
    /\ UNCHANGED <<current_model, calls, linesLeft, storeVars, auxVars>>

\* --------------------------------------------------------------- store
\* The tables of initialize(): conversations by id, messages and the rows of
\* messages_fts in insertion order, and the AUTOINCREMENT counters of
\* sqlite_sequence.
InitDb == [conversations |-> <<>>, conv_seq |-> 0,
           messages |-> <<>>, msg_seq |-> 0, messages_fts |-> <<>>]

MaxConvs == 2
MaxMsgs == 2
MaxClock == 1
MaxConns == 2

Conns == 1..MaxConns
ConvIds == 1..MaxConvs
Titles == {"t"}

\* The (role, content) pairs add_message is called with.
AddInputs == {<<"user", <<"a", "-", "b">>>>, <<"assistant", <<"b">>>>}

\* The texts search_conversations is called with, and the limits of
\* search_conversations (its default) and get_conversations (its default,
\* and one that cuts the list).
SearchQueries == {<<"b">>, <<"a", "-", "b">>}
SearchLimits == {20}
ListLimits == {1, 50}

NoWork == [none |-> TRUE]

\* A connection: the operation it runs, where it stands (s1..s3: before its
\* first to third statement; commit: before db.commit(); r1, r2: before the
\* SELECTs of get_conversation), its open transaction, and what it has read
\* or will return. A finished operation leaves the connection idle.
\* base is the conversation's committed message_count when it began; l1 and
\* q1: before the SELECT of get_conversations and of search_conversations.
IdleConn ==
    [pc |-> "idle", op |-> "none", cid |-> 0, role |-> "", content |-> <<>>,
     title |-> "", work |-> NoWork, result |-> <<>>, base |-> -1,
     query |-> <<>>, limit |-> 0]

\* INSERT INTO conversations (title, model): the id is AUTOINCREMENT, the
\* timestamps and message_count take their defaults.
InsertConversation(w, title, model, now) ==
    LET id == w.conv_seq + 1
    IN  [w EXCEPT !.conv_seq = id,
                  !.conversations = @ @@ (id :> [title |-> title, created_at |-> now,
                                                updated_at |-> now, model |-> model,
                                                message_count |-> 0])]

\* INSERT INTO messages (conversation_id, role, content, model); the foreign
\* key is not enforced (PRAGMA foreign_keys is off by default).
InsertMessage(w, cid, role, content, model, now) ==
    LET id == w.msg_seq + 1
    IN  [w EXCEPT !.msg_seq = id,
                  !.messages = Append(@, [id |-> id, conversation_id |-> cid,
                                          role |-> role, content |-> content,
                                          model |-> model, timestamp |-> now])]

\* INSERT INTO messages_fts (content, conversation_id).
InsertFts(w, content, cid) ==
    [w EXCEPT !.messages_fts = Append(@, [content |-> content, conversation_id |-> cid])]

\* UPDATE conversations SET updated_at = CURRENT_TIMESTAMP,
\* message_count = message_count + 1 WHERE id = ?
UpdateConversation(w, cid, now) ==
    IF cid \in DOMAIN w.conversations
    THEN [w EXCEPT !.conversations[cid].updated_at = now,
                   !.conversations[cid].message_count = @ + 1]
    ELSE w

\* DELETE FROM conversations WHERE id = ?
DeleteConversationRow(w, cid) ==
    [w EXCEPT !.conversations = [i \in DOMAIN @ \ {cid} |-> @[i]]]

DeleteMessagesNone(w, cid) == w

\* DELETE FROM messages WHERE conversation_id = ?
DeleteMessages(w, cid) ==
    LET Keep(m) == m.conversation_id # cid
    IN  [w EXCEPT !.messages = SelectSeq(@, Keep)]

DeleteFtsNone(w, cid) == w

\* DELETE FROM messages_fts WHERE conversation_id = ?
DeleteFts(w, cid) ==
    LET Keep(m) == m.conversation_id # cid
    IN  [w EXCEPT !.messages_fts = SelectSeq(@, Keep)]

\* DELETE FROM conversations / messages / messages_fts
ClearConversations(w) == [w EXCEPT !.conversations = <<>>]
ClearMessagesNone(w) == w

ClearMessages(w) == [w EXCEPT !.messages = <<>>]
ClearFts(w) == [w EXCEPT !.messages_fts = <<>>]

AfterStatementAutocommit(committed, work) == work

\* What other connections see after a statement of an open transaction: the
\* committed content, unchanged until db.commit().
AfterStatement(committed, work) == committed

LockFreeNoLock(c) == TRUE

\* The first write of a transaction takes SQLite's RESERVED lock on the
\* file, which one connection holds at a time.
LockFree(c) == wlock = 0

InFlight(c) == conns[c].pc \in {"s1", "s2", "s3", "commit", "r1", "r2", "l1", "q1"}

NumInFlight(op) == Cardinality({c \in Conns : InFlight(c) /\ conns[c].op = op})

\* The message_count of conversation cid in d, or -1 without such a row.
CountIn(d, cid) ==
    IF cid \in DOMAIN d.conversations THEN d.conversations[cid].message_count ELSE -1

\* async with aiosqlite.connect(self.db_path): an operation starts on a
\* connection of its own.
Connect(c, conn) ==
    /\ ~InFlight(c)
    /\ conns' = [conns EXCEPT ![c] = conn]
    /\ UNCHANGED <<db, wlock, clock, genVars, auxVars>>

create_conversation(c, title) ==
    /\ db.conv_seq + NumInFlight("create") < MaxConvs
    /\ Connect(c, [IdleConn EXCEPT !.pc = "s1", !.op = "create", !.title = title])

add_message(c, cid, role, content) ==
    /\ db.msg_seq + NumInFlight("add") < MaxMsgs
    /\ Connect(c, [IdleConn EXCEPT !.pc = "s1", !.op = "add", !.cid = cid,
                                   !.role = role, !.content = content,
                                   !.base = CountIn(db, cid)])

delete_conversation(c, cid) ==
    Connect(c, [IdleConn EXCEPT !.pc = "s1", !.op = "delete", !.cid = cid])

clear_all_history(c) ==
    Connect(c, [IdleConn EXCEPT !.pc = "s1", !.op = "clear"])

get_conversation(c, cid) ==
    Connect(c, [IdleConn EXCEPT !.pc = "r1", !.op = "get", !.cid = cid])

get_conversations(c, limit) ==
    Connect(c, [IdleConn EXCEPT !.pc = "l1", !.op = "list", !.limit = limit])

search_conversations(c, query, limit) ==
    Connect(c, [IdleConn EXCEPT !.pc = "q1", !.op = "search", !.query = query,
                                !.limit = limit])

\* The first statement of create_conversation (61), add_message (71),
\* delete_conversation (139) and clear_all_history (164).
Statement1(conn, w, now) ==
    CASE conn.op = "create" -> InsertConversation(w, conn.title, NoModel, now)
      [] conn.op = "add" -> InsertMessage(w, conn.cid, conn.role, conn.content, NoModel, now)
      [] conn.op = "delete" -> DeleteConversationRow(w, conn.cid)
      [] conn.op = "clear" -> ClearConversations(w)

\* The second statement: lines 77, 140 and 165.
Statement2(conn, w, now) ==
    CASE conn.op = "add" -> InsertFts(w, conn.content, conn.cid)
      [] conn.op = "delete" -> DeleteMessages(w, conn.cid)
      [] conn.op = "clear" -> ClearMessages(w)

\* The third statement: lines 83, 141 and 166.
Statement3(conn, w, now) ==
    CASE conn.op = "add" -> UpdateConversation(w, conn.cid, now)
      [] conn.op = "delete" -> DeleteFts(w, conn.cid)
      [] conn.op = "clear" -> ClearFts(w)

StoreStep1(c) ==
    /\ conns[c].pc = "s1"
    /\ LockFree(c)
    /\ wlock' = c
    /\ LET w == Statement1(conns[c], db, clock)
       IN  /\ conns' = [conns EXCEPT ![c] =
                  [@ EXCEPT !.work = w,
                            !.pc = IF conns[c].op = "create" THEN "commit" ELSE "s2",
                            !.result = IF conns[c].op = "create" THEN <<w.conv_seq>> ELSE <<>>]]
           /\ db' = AfterStatement(db, w)
    /\ UNCHANGED <<clock, genVars, auxVars>>

StoreStep2(c) ==
    /\ conns[c].pc = "s2"
    /\ LET w == Statement2(conns[c], conns[c].work, clock)
       IN  /\ conns' = [conns EXCEPT ![c] = [@ EXCEPT !.work = w, !.pc = "s3"]]
           /\ db' = AfterStatement(db, w)
    /\ UNCHANGED <<wlock, clock, genVars, auxVars>>

StoreStep3(c) ==
    /\ conns[c].pc = "s3"
    /\ LET w == Statement3(conns[c], conns[c].work, clock)
       IN  /\ conns' = [conns EXCEPT ![c] = [@ EXCEPT !.work = w, !.pc = "commit"]]
           /\ db' = AfterStatement(db, w)
    /\ UNCHANGED <<wlock, clock, genVars, auxVars>>

\* await db.commit(): the transaction becomes the committed content.
StoreCommit(c) ==
    /\ conns[c].pc = "commit"
    /\ db' = conns[c].work
    /\ wlock' = 0
    /\ conns' = [conns EXCEPT ![c] = IdleConn]
    /\ UNCHANGED <<clock, genVars, auxVars>>

StoreFailKeeps(c) ==
    /\ InFlight(c)
    /\ conns' = [conns EXCEPT ![c] = IdleConn]
    /\ wlock' = IF wlock = c THEN 0 ELSE wlock
    /\ db' = IF wlock = c THEN conns[c].work ELSE db
    /\ UNCHANGED <<clock, genVars, auxVars>>

\* A statement or the commit raises (the lock is not obtained within the
\* busy timeout, an I/O error): the exception leaves the async with block,
\* the connection closes and its open transaction is rolled back.
StoreFail(c) ==
    /\ InFlight(c)
    /\ conns' = [conns EXCEPT ![c] = IdleConn]
    /\ wlock' = IF wlock = c THEN 0 ELSE wlock
    /\ UNCHANGED <<db, clock, genVars, auxVars>>

RECURSIVE Orderings(_)
\* The sequences that hold each element of the set once.
Orderings(S) ==
    IF S = {} THEN {<<>>}
    ELSE UNION {{<<x>> \o p : p \in Orderings(S \ {x})} : x \in S}

\* SELECT ... FROM messages WHERE conversation_id = ? ORDER BY timestamp ASC:
\* the rows in non-decreasing timestamp order; SQL leaves the order of rows
\* with equal timestamps open.
OrderedByTimestamp(d, cid) ==
    LET rows == {d.messages[i] : i \in {j \in DOMAIN d.messages :
                                          d.messages[j].conversation_id = cid}}
    IN  {p \in Orderings(rows) :
            \A i \in 1..(Len(p) - 1) : p[i].timestamp <= p[i + 1].timestamp}

\* get_conversation, lines 113-121: the conversation row, or None.
StoreRead1(c) ==
    /\ conns[c].pc = "r1"
    /\ conns[c].op = "get"
    /\ IF conns[c].cid \in DOMAIN db.conversations
       THEN conns' = [conns EXCEPT ![c] =
                [@ EXCEPT !.pc = "r2", !.result = <<db.conversations[conns[c].cid]>>]]
       ELSE conns' = [conns EXCEPT ![c] = IdleConn]
    /\ UNCHANGED <<db, wlock, clock, genVars, auxVars>>

\* What get_conversation may return for a connection about to run its second
\* SELECT: the row it read, with the messages as now committed.
GetResults(c) ==
    {[conversation |-> conns[c].result[1], messages |-> msgs] :
        msgs \in OrderedByTimestamp(db, conns[c].cid)}

\* get_conversation, lines 124-134: the messages, in a second SELECT; one of
\* GetResults(c) is returned.
StoreRead2(c) ==
    /\ conns[c].pc = "r2"
    /\ conns' = [conns EXCEPT ![c] = IdleConn]
    /\ UNCHANGED <<db, wlock, clock, genVars, auxVars>>

\* LIMIT ?: the first rows; a negative limit is no limit.
Limit(rows, limit) ==
    IF limit < 0 \/ Len(rows) <= limit THEN rows ELSE SubSeq(rows, 1, limit)

\* The ids of a set of conversations ORDER BY updated_at DESC; SQL leaves the
\* order of rows with equal updated_at open.
OrderedByUpdated(d, ids) ==
    {p \in Orderings(ids) :
        \A i \in 1..(Len(p) - 1) :
            d.conversations[p[i]].updated_at >= d.conversations[p[i + 1]].updated_at}

\* SELECT ... FROM conversations ORDER BY updated_at DESC LIMIT ?: the rows
\* of conversations, newest update first, cut at the limit.
ListOf(d, limit) ==
    {[i \in DOMAIN Limit(p, limit) |-> [id |-> p[i]] @@ d.conversations[p[i]]] :
        p \in OrderedByUpdated(d, DOMAIN d.conversations)}

\* What get_conversations may return for a connection about to run its
\* SELECT.
ListResults(c) == ListOf(db, conns[c].limit)

\* get_conversations, lines 95-105; one of ListResults(c) is returned.
StoreList(c) ==
    /\ conns[c].pc = "l1"
    /\ conns' = [conns EXCEPT ![c] = IdleConn]
    /\ UNCHANGED <<db, wlock, clock, genVars, auxVars>>

\* The characters the unicode61 tokenizer of fts5 takes as separators.
Separators == {"-", " "}

RECURSIVE Tokens(_)
\* The tokens fts5 indexes a text by: its maximal runs of characters other
\* than separators.
Tokens(text) ==
    IF text = <<>> THEN {}
    ELSE IF Head(text) \in Separators THEN Tokens(Tail(text))
    ELSE LET n == CHOOSE k \in 1..Len(text) :
                    /\ \A i \in 1..k : text[i] \notin Separators
                    /\ k = Len(text) \/ text[k + 1] \in Separators
         IN  {SubSeq(text, 1, n)} \cup Tokens(SubSeq(text, n + 1, Len(text)))

\* The text is a query of the fts5 syntax: barewords separated by blanks.
\* The argument of MATCH is the caller's text as it is; a '-' in it (as any
\* punctuation outside a quoted string) makes the statement fail with
\* sqlite3.OperationalError.
IsFtsQuery(query) ==
    /\ Tokens(query) # {}
    /\ \A i \in DOMAIN query : query[i] # "-"

\* messages_fts MATCH ?: the entry holds every term of the query.
Match(entry, query) == Tokens(query) \subseteq Tokens(entry.content)

\* What search_conversations may do for a connection about to run its
\* SELECT: raise, or return the DISTINCT rows of conversations joined to a
\* matching entry, newest update first, cut at the limit.
SearchResults(c) ==
    IF ~IsFtsQuery(conns[c].query)
    THEN {[error |-> TRUE, rows |-> <<>>]}
    ELSE LET ids == {cid \in DOMAIN db.conversations :
                        \E i \in DOMAIN db.messages_fts :
                            /\ db.messages_fts[i].conversation_id = cid
                            /\ Match(db.messages_fts[i], conns[c].query)}
         IN  {[error |-> FALSE,
               rows |-> [i \in DOMAIN Limit(p, conns[c].limit) |->
                            [id |-> p[i]] @@ db.conversations[p[i]]]] :
                 p \in OrderedByUpdated(db, ids)}

\* search_conversations, lines 146-159; one of SearchResults(c) happens.
StoreSearch(c) ==
    /\ conns[c].pc = "q1"
    /\ conns' = [conns EXCEPT ![c] = IdleConn]
    /\ UNCHANGED <<db, wlock, clock, genVars, auxVars>>

\* CURRENT_TIMESTAMP moves on to the next second.
Tick ==
    /\ clock < MaxClock
    /\ clock' = clock + 1
    /\ UNCHANGED <<db, conns, wlock, genVars, auxVars>>

\* ------------------------------------------------- check_ollama_status
\* What GET /api/tags may come to: no connection, no answer within the
\* timeout, or a response with a status code and a body; the body is not
\* JSON, JSON that is not an object, an object whose models lack 'name', or
\* an object with a list of models (none when it has no 'models').
TagLists ==
    {<<>>, <<"deepseek-v3.1:671b-cloud">>, <<"llama3.2">>,
     <<"llama3.2", "deepseek-v3.1:671b-cloud">>}

Responses ==
    {[kind |-> k, status |-> 0, body |-> "none", names |-> <<>>] :
        k \in {"connect_error", "timeout"}}
    \cup {[kind |-> "http", status |-> st, body |-> "none", names |-> <<>>] :
            st \in {404, 500}}
    \cup {[kind |-> "http", status |-> 200, body |-> b, names |-> <<>>] :
            b \in {"unreadable", "not_object", "no_name"}}
    \cup {[kind |-> "http", status |-> 200, body |-> "tags", names |-> l] :
            l \in TagLists}

check_ollama_status_raises(registry, response) ==
    IF response.kind # "http" THEN [status |-> "raised"]
    ELSE [status |-> "error", message |-> "Unexpected response"]

\* Lines 36-56: what check_ollama_status returns for a response.
check_ollama_status(registry, response) ==
    IF response.kind # "http" THEN [status |-> "offline"]
    ELSE IF response.status # 200
    THEN [status |-> "error", message |-> "Unexpected response"]
    ELSE IF response.body # "tags" THEN [status |-> "offline"]
    ELSE LET available_models == response.names
         IN  [status |-> "online",
              models_available |->
                  {<<registry[i].key,
                     \E j \in DOMAIN available_models :
                         available_models[j] = registry[i].name>> :
                      i \in DOMAIN registry},
              all_models |-> available_models]

IdleProbe == [pc |-> "idle", requests |-> 0, response |-> <<>>, result |-> <<>>]

\* Lines 36-38: the client is opened and the one GET sent.
CheckStart ==
    /\ probe.pc = "idle"
    /\ probe' = [probe EXCEPT !.pc = "requesting", !.requests = @ + 1]
    /\ UNCHANGED <<conversation_history, current_model, calls, linesLeft,
                   db, conns, wlock, clock, router>>

\* Lines 38-56: the GET ends and check_ollama_status returns.
CheckReturn(response) ==
    /\ probe.pc = "requesting"
    /\ probe' = [probe EXCEPT !.pc = "done", !.response = <<response>>,
                              !.result = <<check_ollama_status(router.models, response)>>]
    /\ UNCHANGED <<conversation_history, current_model, calls, linesLeft,
                   db, conns, wlock, clock, router>>

IdleRouter == [models |-> models, routed |-> <<>>, classified |-> <<>>]

\* The server: the router of api.py's NexusCore, no status check running.
AuxInit ==
    /\ router = IdleRouter
    /\ probe = IdleProbe

GenInit ==
    /\ conversation_history = <<>>
    /\ current_model = NoModel
    /\ calls = [c \in Calls |-> IdleCall]
    /\ linesLeft = MaxLines

StoreInit ==
    /\ db = InitDb
    /\ conns = [c \in Conns |-> IdleConn]
    /\ wlock = 0
    /\ clock = 0

Init == GenInit /\ StoreInit /\ AuxInit

\* A router or an orchestrator configured with any of the registries.
RegistryInit ==
    /\ GenInit
    /\ StoreInit
    /\ router \in {[IdleRouter EXCEPT !.models = r] : r \in Registries}
    /\ probe = IdleProbe

\* One chat session: its generate calls, one after the other, each consumed
\* to its end.
Session == CHOOSE c \in Calls : \A d \in Calls : c <= d

WindowNext ==
    \/ \E q \in Queries : GenStart(Session, q)
    \/ GenResumeSelected(Session)
    \/ GenConnectOk(Session)
    \/ GenConnectFail(Session)
    \/ \E line \in Lines(calls[Session].full_response) : GenLine(Session, line)
    \/ GenResumeContent(Session)
    \/ GenResumeComplete(Session)
    \/ GenStreamEnd(Session)
    \/ GenResumeError(Session)
    \/ GenAgain(Session)

WindowSpec == Init /\ [][WindowNext]_vars

RouterNext ==
    \/ \E q \in RouterQueries : RouterSelect(q)
    \/ \E scores \in ScoreVectors : RouterClassify(scores)

RouterSpec == RegistryInit /\ [][RouterNext]_vars

StatusNext ==
    \/ CheckStart
    \/ \E response \in Responses : CheckReturn(response)

StatusSpec == RegistryInit /\ [][StatusNext]_vars

GenNext ==
    \/ \E c \in Calls, q \in Queries : GenStart(c, q)
    \/ \E c \in Calls : GenResumeSelected(c)
    \/ \E c \in Calls : GenConnectOk(c)
    \/ \E c \in Calls : GenConnectFail(c)
    \/ \E c \in Calls : \E line \in Lines(calls[c].full_response) : GenLine(c, line)
    \/ \E c \in Calls : GenResumeContent(c)
    \/ \E c \in Calls : GenResumeComplete(c)
    \/ \E c \in Calls : GenStreamEnd(c)
    \/ \E c \in Calls : GenNetFail(c)
    \/ \E c \in Calls : GenResumeError(c)
    \/ \E c \in Calls : GenAbandon(c)
    \/ reset_conversation

GenSpec == Init /\ [][GenNext]_vars

StoreNext ==
    \/ \E c \in Conns, title \in Titles : create_conversation(c, title)
    \/ \E c \in Conns, cid \in ConvIds, input \in AddInputs :
            add_message(c, cid, input[1], input[2])
    \/ \E c \in Conns, cid \in ConvIds : delete_conversation(c, cid)
    \/ \E c \in Conns : clear_all_history(c)
    \/ \E c \in Conns, cid \in ConvIds : get_conversation(c, cid)
    \/ \E c \in Conns, limit \in ListLimits : get_conversations(c, limit)
    \/ \E c \in Conns, query \in SearchQueries, limit \in SearchLimits :
            search_conversations(c, query, limit)
    \/ \E c \in Conns : StoreStep1(c)
    \/ \E c \in Conns : StoreStep2(c)
    \/ \E c \in Conns : StoreStep3(c)
    \/ \E c \in Conns : StoreCommit(c)
    \/ \E c \in Conns : StoreFail(c)
    \/ \E c \in Conns : StoreRead1(c)
    \/ \E c \in Conns : StoreRead2(c)
    \/ \E c \in Conns : StoreList(c)
    \/ \E c \in Conns : StoreSearch(c)
    \/ Tick

StoreSpec == Init /\ [][StoreNext]_vars

Next == GenNext \/ StoreNext

Spec == Init /\ [][Next]_vars

\* ------------------------------------------------- properties: generator
IsTerminalEvent(e) == e.type \in {"complete", "error"}

NumEvents(events, types) ==
    Cardinality({i \in DOMAIN events : events[i].type \in types})

RECURSIVE ContentText(_)
\* The text of the 'content' events of a log, concatenated in order.
ContentText(events) ==
    IF events = <<>> THEN <<>>
    ELSE LET e == Head(events)
         IN  (IF e.type = "content" THEN e.content ELSE <<>>) \o ContentText(Tail(events))

NumAssistant(msgs) ==
    Cardinality({i \in DOMAIN msgs : msgs[i].role = "assistant"})

NumStored(text) ==
    Cardinality({i \in DOMAIN db.messages :
                    /\ db.messages[i].role = "assistant"
                    /\ db.messages[i].content = text})

\* Sum of f over the calls.
TotalProcessed == calls[1].n_processed + calls[2].n_processed

\* C1: a generate call consumed to exhaustion has emitted exactly one terminal
\* event (Complete or Error), and that event is the last of its sequence.
C1_ExactlyOneTerminalEvent ==
    \A c \in Calls :
        calls[c].pc = "finished" =>
            /\ NumEvents(calls[c].events, {"complete", "error"}) = 1
            /\ IsTerminalEvent(calls[c].events[Len(calls[c].events)])

\* C2: when the stream closes normally and no frame with done == true was
\* delivered, the call has emitted a single Error event, as its last event.
C2_CleanCloseYieldsError ==
    \A c \in Calls :
        (calls[c].pc = "finished" /\ calls[c].left_at = "reading" /\ calls[c].n_done = 0) =>
            /\ NumEvents(calls[c].events, {"error"}) = 1
            /\ calls[c].events[Len(calls[c].events)].type = "error"

\* C3: a call in which no terminal frame was processed (it failed, the stream
\* closed early, or the consumer abandoned it) has appended no assistant
\* message, whatever Content events it emitted: the context holds no more
\* assistant messages than terminal frames were processed, and the store none.
C3_NoCommitWithoutTerminal ==
    /\ \A c \in Calls :
           calls[c].n_processed = 0 =>
               /\ calls[c].appended = 0
               /\ NumEvents(calls[c].events, {"complete"}) = 0
    /\ NumAssistant(conversation_history) <= TotalProcessed
    /\ NumAssistant(db.messages) = 0

\* C3's case: the consumer abandoned a call while holding the Content event
\* of a frame that also carried the terminal flag.
C3_Witness ==
    \E c \in Calls :
        /\ calls[c].pc = "closed"
        /\ calls[c].left_at = "at_content"
        /\ calls[c].last_done
        /\ calls[c].n_processed = 0
        /\ NumAssistant(conversation_history) = 0

\* C4: whenever a consumer has received Complete, the Conversation Store
\* holds the assistant message with the accumulated full text.
C4_CompleteImpliesStored ==
    \A c \in Calls :
        \A i \in DOMAIN calls[c].events :
            calls[c].events[i].type = "complete" =>
                NumStored(calls[c].events[i].full_response) >= 1

\* C5: for a frame sequence that ends with its first terminal frame, Complete
\* carries the concatenation of the Content texts in arrival order, and the
\* call has committed exactly one new assistant message with that text, to
\* the context and to the persisted history.
C5_CompleteTextAndOneCommit ==
    \A c \in Calls :
        (/\ calls[c].pc = "finished"
         /\ calls[c].left_at = "reading"
         /\ calls[c].n_done = 1
         /\ calls[c].last_done) =>
            LET events == calls[c].events
                last == events[Len(events)]
            IN  /\ NumEvents(events, {"complete"}) = 1
                /\ last.type = "complete"
                /\ last.full_response = ContentText(events)
                /\ calls[c].appended = 1
                /\ NumStored(last.full_response) = 1

\* The part of C5 the orchestrator alone decides: the Complete text and the
\* one assistant turn appended to the context.
C5_ContextPart ==
    \A c \in Calls :
        (/\ calls[c].pc = "finished"
         /\ calls[c].left_at = "reading"
         /\ calls[c].n_done = 1
         /\ calls[c].last_done) =>
            LET events == calls[c].events
                last == events[Len(events)]
            IN  /\ NumEvents(events, {"complete"}) = 1
                /\ last.type = "complete"
                /\ last.full_response = ContentText(events)
                /\ calls[c].appended = 1

\* ----------------------------------------------------- properties: store
NumMsgs(d, cid) ==
    Cardinality({i \in DOMAIN d.messages : d.messages[i].conversation_id = cid})

NumRows(d, content, cid) ==
    Cardinality({i \in DOMAIN d.messages :
                    /\ d.messages[i].content = content
                    /\ d.messages[i].conversation_id = cid})

NumEntries(d, content, cid) ==
    Cardinality({i \in DOMAIN d.messages_fts :
                    d.messages_fts[i] = [content |-> content, conversation_id |-> cid]})

Contents == {input[2] : input \in AddInputs}

\* C6: in every committed state of the store, every conversation row's
\* message_count equals the number of persisted messages with its id.
C6_MessageCountMatches ==
    \A cid \in DOMAIN db.conversations :
        db.conversations[cid].message_count = NumMsgs(db, cid)

\* C7: in every committed state the search index holds exactly one entry
\* (content, conversation id) per persisted message and no other entry.
C7_IndexMatchesMessages ==
    /\ Len(db.messages_fts) = Len(db.messages)
    /\ \A cid \in ConvIds, content \in Contents :
           NumEntries(db, content, cid) = NumRows(db, content, cid)

\* C7's case: messages were inserted, a delete_conversation or a
\* clear_all_history has removed some, and some remain.
C7_Witness ==
    /\ db.msg_seq > Len(db.messages)
    /\ Len(db.messages) >= 1
    /\ Len(db.messages_fts) = Len(db.messages)

\* The committed content after the step is the one before it with the three
\* effects of connection c's add_message: the message row, the index entry,
\* and the parent's message_count raised and updated_at refreshed.
AddApplied(c) ==
    LET cn == conns[c]
        n == Len(db.messages)
    IN  /\ Len(db'.messages) = n + 1
        /\ SubSeq(db'.messages, 1, n) = db.messages
        /\ db'.messages[n + 1].conversation_id = cn.cid
        /\ db'.messages[n + 1].role = cn.role
        /\ db'.messages[n + 1].content = cn.content
        /\ db'.messages_fts =
               Append(db.messages_fts, [content |-> cn.content, conversation_id |-> cn.cid])
        /\ DOMAIN db'.conversations = DOMAIN db.conversations
        /\ \A id \in DOMAIN db.conversations :
               IF id = cn.cid
               THEN /\ db'.conversations[id].message_count =
                           db.conversations[id].message_count + 1
                    /\ db'.conversations[id].updated_at >= db.conversations[id].updated_at
                    /\ db'.conversations[id].updated_at >= db'.messages[n + 1].timestamp
               ELSE db'.conversations[id] = db.conversations[id]

C9_ConcurrentAppendsCount ==
    [][\A c \in Conns :
          (/\ conns[c].op = "add" /\ conns[c].pc = "commit"
           /\ conns'[c].pc = "idle" /\ db' # db) =>
              /\ NumMsgs(db', conns[c].cid) = NumMsgs(db, conns[c].cid) + 1
              /\ conns[c].cid \in DOMAIN db.conversations =>
                     CountIn(db', conns[c].cid) = CountIn(db, conns[c].cid) + 1]_vars

\* C9's case: an add_message that began when the count was base is about to
\* commit base + 2, another append to the same conversation having
\* committed since it began.
C9_Witness ==
    \E c \in Conns :
        /\ conns[c].op = "add" /\ conns[c].pc = "commit"
        /\ conns[c].base >= 0
        /\ CountIn(db, conns[c].cid) = conns[c].base + 1
        /\ CountIn(conns[c].work, conns[c].cid) = conns[c].base + 2

\* C10: get_conversation returns the messages in the order in which their
\* add_message calls committed (the order of their ids), also for messages
\* of one timestamp.
C10_MessagesInCommitOrder ==
    \A c \in Conns :
        conns[c].pc = "r2" =>
            \A r \in GetResults(c) :
                \A i, j \in DOMAIN r.messages :
                    i < j => r.messages[i].id < r.messages[j].id

\* The message of conversation cid that was appended last (the greatest id).
LatestOf(d, cid) ==
    LET own == {i \in DOMAIN d.messages : d.messages[i].conversation_id = cid}
    IN  d.messages[CHOOSE i \in own : \A j \in own : d.messages[j].id <= d.messages[i].id]

\* C11: add_message on an existing conversation followed by get_conversation:
\* the returned list ends with the appended message (its role and content),
\* and the commit raised message_count by exactly 1.
C11_AppendThenGet ==
    /\ [](\A c \in Conns :
            (conns[c].pc = "r2" /\ NumMsgs(db, conns[c].cid) > 0) =>
                \A r \in GetResults(c) :
                    LET last == r.messages[Len(r.messages)]
                        latest == LatestOf(db, conns[c].cid)
                    IN  last.role = latest.role /\ last.content = latest.content)
    /\ [][\A c \in Conns :
            (/\ conns[c].op = "add" /\ conns[c].pc = "commit" /\ db' # db
             /\ conns[c].cid \in DOMAIN db.conversations) =>
                CountIn(db', conns[c].cid) = CountIn(db, conns[c].cid) + 1]_vars

\* C11 for an append in a later second than every earlier message of the
\* conversation: then the list ends with the appended message.
C11_LaterSecond ==
    \A c \in Conns :
        (conns[c].pc = "r2" /\ NumMsgs(db, conns[c].cid) > 0) =>
            LET latest == LatestOf(db, conns[c].cid)
            IN  (\A i \in DOMAIN db.messages :
                    (db.messages[i].conversation_id = conns[c].cid
                     /\ db.messages[i].id # latest.id) =>
                        db.messages[i].timestamp < latest.timestamp) =>
                \A r \in GetResults(c) : r.messages[Len(r.messages)] = latest

\* A reader about to fetch the messages of a conversation whose two messages
\* were appended in different seconds.
C11_LaterSecondCase ==
    \E c \in Conns :
        /\ conns[c].pc = "r2" /\ NumMsgs(db, conns[c].cid) = 2
        /\ \E i, j \in DOMAIN db.messages :
              /\ db.messages[i].conversation_id = conns[c].cid
              /\ db.messages[j].conversation_id = conns[c].cid
              /\ db.messages[i].timestamp < db.messages[j].timestamp

NumIndexed(d, cid) ==
    Cardinality({i \in DOMAIN d.messages_fts : d.messages_fts[i].conversation_id = cid})

\* The messages and the index entries of the conversations other than cid.
OthersOf(d, cid) ==
    LET Other(m) == m.conversation_id # cid
    IN  [messages |-> SelectSeq(d.messages, Other),
         messages_fts |-> SelectSeq(d.messages_fts, Other)]

\* The committed content after the step is the one before it without the
\* row, the messages and the index entries of connection c's conversation,
\* and with everything else as it was.
DeleteApplied(c) ==
    LET cid == conns[c].cid
    IN  /\ DOMAIN db'.conversations = DOMAIN db.conversations \ {cid}
        /\ NumMsgs(db', cid) = 0
        /\ NumIndexed(db', cid) = 0
        /\ \A id \in DOMAIN db'.conversations :
               db'.conversations[id] = db.conversations[id]
        /\ OthersOf(db', cid) = OthersOf(db, cid)

\* C12: delete_conversation removes the row, the messages and the index
\* entries of its conversation in one step and changes nothing else: a step
\* of a delete_conversation leaves the committed content (what any observer
\* sees) unchanged or, at its commit only, changes it by the whole removal.
C12_DeleteAtomicAndFramed ==
    [][\A c \in Conns :
          (conns[c].op = "delete" /\ conns'[c] # conns[c]) =>
              \/ db' = db
              \/ conns[c].pc = "commit" /\ DeleteApplied(c)]_vars

\* C12's case: a delete_conversation is about to commit the removal of a
\* conversation that has a message and an index entry, while another
\* conversation with a message of its own exists.
C12_Witness ==
    \E c \in Conns :
        /\ conns[c].op = "delete" /\ conns[c].pc = "commit"
        /\ conns[c].cid \in DOMAIN db.conversations
        /\ NumMsgs(db, conns[c].cid) >= 1
        /\ NumIndexed(db, conns[c].cid) >= 1
        /\ \E other \in DOMAIN db.conversations :
              other # conns[c].cid /\ NumMsgs(db, other) >= 1

\* C13: delete_conversation with an id that has no conversation row (never
\* created, or already deleted) leaves the store unchanged, so a second
\* delete changes nothing after the first.
C13_DeleteIdempotent ==
    [][\A c \in Conns :
          (/\ conns[c].op = "delete" /\ conns[c].pc = "commit"
           /\ conns'[c].pc = "idle"
           /\ conns[c].cid \notin DOMAIN db.conversations) =>
              db' = db]_vars

\* C13 for an id under which nothing is stored (no row, no message, no
\* index entry), as after a delete_conversation of it.
C13_NothingStored ==
    [][\A c \in Conns :
          (/\ conns[c].op = "delete" /\ conns[c].pc = "commit"
           /\ conns'[c].pc = "idle"
           /\ conns[c].cid \notin DOMAIN db.conversations
           /\ NumMsgs(db, conns[c].cid) = 0
           /\ NumIndexed(db, conns[c].cid) = 0) =>
              db' = db]_vars

\* A delete_conversation about to commit for an id that was deleted before.
C13_NothingStoredCase ==
    \E c \in Conns :
        /\ conns[c].op = "delete" /\ conns[c].pc = "commit"
        /\ conns[c].cid \notin DOMAIN db.conversations
        /\ conns[c].cid <= db.conv_seq
        /\ NumMsgs(db, conns[c].cid) = 0
        /\ db.msg_seq > 0

\* The text holds the query as a contiguous part.
Contains(text, query) ==
    \E i \in 0..(Len(text) - Len(query)) :
        SubSeq(text, i + 1, i + Len(query)) = query

\* The conversations with a row and a persisted message whose content holds
\* the query.
Matching(d, query) ==
    {cid \in DOMAIN d.conversations :
        \E i \in DOMAIN d.messages :
            /\ d.messages[i].conversation_id = cid
            /\ Contains(d.messages[i].content, query)}

\* The search returns, without an error, each conversation of Matching once
\* and no other.
SearchesRight(c, r) ==
    /\ ~r.error
    /\ \A cid \in Matching(db, conns[c].query) :
           \E i \in DOMAIN r.rows : r.rows[i].id = cid
    /\ \A i, j \in DOMAIN r.rows : i # j => r.rows[i].id # r.rows[j].id
    /\ \A i \in DOMAIN r.rows : r.rows[i].id \in Matching(db, conns[c].query)

\* C14: search_conversations(q) returns every conversation that has a
\* message whose content matches q, each once, and no conversation that was
\* deleted or cleared.
C14_SearchFindsAndForgets ==
    \A c \in Conns :
        conns[c].pc = "q1" => \A r \in SearchResults(c) : SearchesRight(c, r)

\* C14 for a query that is one word of letters.
C14_WordQuery ==
    \A c \in Conns :
        (conns[c].pc = "q1" /\ conns[c].query = <<"b">>) =>
            \A r \in SearchResults(c) : SearchesRight(c, r)

\* A search for a word is about to run while a conversation that had a
\* message with the word was deleted and another one with it exists.
C14_WordQueryCase ==
    \E c \in Conns :
        /\ conns[c].pc = "q1" /\ conns[c].query = <<"b">>
        /\ Matching(db, conns[c].query) # {}
        /\ db.conv_seq > Cardinality(DOMAIN db.conversations)
        /\ db.msg_seq > Len(db.messages)

C16_SessionsIndependent ==
    \A c \in Calls :
        calls[c].messages # <<>> =>
            calls[c].messages = <<Message("system", SystemPrompt),
                                  Message("user", calls[c].query)>>

\* What the consumer and the orchestrator can tell of a call: all of it but
\* the counters of delivered lines.
Visible(call) ==
    [pc |-> call.pc, query |-> call.query, model_name |-> call.model_name,
     messages |-> call.messages, full_response |-> call.full_response,
     chunk_done |-> call.chunk_done, events |-> call.events,
     client_open |-> call.client_open, stream_open |-> call.stream_open]

\* C17: a line that is not JSON is skipped without effect: the step that
\* takes it changes neither the call (its events, its text so far, its place
\* in the loop, its open stream) nor the context, and yields no Error.
C17_MalformedSkipped ==
    [][\A c \in Calls :
          calls'[c].n_malformed = calls[c].n_malformed + 1 =>
              /\ Visible(calls'[c]) = Visible(calls[c])
              /\ calls'[c].pc = "reading"
              /\ conversation_history' = conversation_history
              /\ current_model' = current_model]_vars

\* C17's case: a call took a line that was not JSON, then the terminal
\* frame, and ended with Complete.
C17_Witness ==
    \E c \in Calls :
        /\ calls[c].n_malformed >= 1
        /\ calls[c].pc = "finished"
        /\ calls[c].events[Len(calls[c].events)].type = "complete"

\* C18: when the backend call fails or times out, on connect or in the
\* stream, before a terminal frame, the call emits exactly one Error event
\* with the selected model name, as its last event, no Complete, and ends
\* without raising.
C18_FailureYieldsOneError ==
    \A c \in Calls :
        (calls[c].failed # "none" /\ calls[c].n_done = 0) =>
            LET events == calls[c].events
            IN  /\ NumEvents(events, {"error"}) = 1
                /\ NumEvents(events, {"complete"}) = 0
                /\ events[Len(events)] = Error(select_model(models, calls[c].query).name)
                /\ calls[c].pc \in {"at_error", "finished", "closed"}
                /\ calls[c].left_at \in {"none", "at_error"}

\* C18's case: the connection failed in the stream, after a Content event,
\* and the consumer has taken the Error event.
C18_Witness ==
    \E c \in Calls :
        /\ calls[c].failed = "stream"
        /\ calls[c].n_done = 0
        /\ NumEvents(calls[c].events, {"content"}) >= 1
        /\ calls[c].pc = "finished"

\* The parts of C19 other than that of Content before the terminal event.
EventsOrdered(c) ==
    LET events == calls[c].events
        n == NumEvents(events, {"content"})
    IN  /\ events[1].type = "model_selected"
        /\ NumEvents(events, {"model_selected"}) = 1
        /\ calls[c].pc = "at_model_selected" =>
               /\ calls[c].messages = <<>>
               /\ ~calls[c].client_open
               /\ (\A o \in Calls \ {c} : calls[o].pc = "idle") =>
                      conversation_history = <<>>
        /\ n <= Len(Alphabet)
        /\ ContentText(events) = SubSeq(Alphabet, 1, n)
        /\ calls[c].stream_open => calls[c].full_response = ContentText(events)

\* C19: the first event of a call is ModelSelected, once, before the user
\* turn is appended and the backend contacted; the Content events follow in
\* frame arrival order, one per frame with text, all before the terminal
\* event.
C19_EventOrder ==
    \A c \in Calls :
        calls[c].events # <<>> =>
            /\ EventsOrdered(c)
            /\ \A i, j \in DOMAIN calls[c].events :
                   (calls[c].events[i].type = "content"
                    /\ IsTerminalEvent(calls[c].events[j])) => i < j

\* C19 without the part on the terminal event.
C19_OrderPart ==
    \A c \in Calls : calls[c].events # <<>> => EventsOrdered(c)

\* A call has emitted two Content events.
C19_OrderPartCase ==
    \E c \in Calls : NumEvents(calls[c].events, {"content"}) = 2

\* C20: when the consumer abandons a call before its terminal event, the
\* backend stream and the client are released and no assistant message is
\* committed: the call has appended none, the store holds none, and the step
\* of abandoning changes neither the context nor the store.
C20_AbandonReleases ==
    /\ [](\A c \in Calls :
            (/\ calls[c].pc = "closed"
             /\ NumEvents(calls[c].events, {"complete", "error"}) = 0) =>
                /\ ~calls[c].stream_open
                /\ ~calls[c].client_open
                /\ calls[c].appended = 0
                /\ NumAssistant(db.messages) = 0)
    /\ [][\A c \in Calls :
            (calls[c].pc # "closed" /\ calls'[c].pc = "closed") =>
                /\ conversation_history' = conversation_history
                /\ db' = db]_vars

\* C20's case: the consumer abandoned a call while holding a Content event,
\* the stream open and no terminal frame delivered.
C20_Witness ==
    \E c \in Calls :
        /\ calls[c].pc = "closed"
        /\ calls[c].left_at = "at_content"
        /\ calls[c].n_done = 0
        /\ NumEvents(calls[c].events, {"content"}) >= 1

\* ------------------------------------------- properties: context window
\* C21: the in-memory context of a session never holds more than the most
\* recent 10 messages.
C21_ContextBounded == Len(conversation_history) <= 10

\* C22: the prompt built by a generate call is the system preamble followed
\* by the last min(10, n) messages of the context in their order, n being
\* the context's length once the user turn is appended, and it ends with the
\* call's user query.
C22_PromptIsLastTen ==
    [][\A c \in Calls :
          (calls[c].pc = "at_model_selected" /\ calls'[c].pc = "connecting") =>
              LET h == conversation_history'
                  n == Len(h)
                  k == IF n < 10 THEN n ELSE 10
                  msgs == calls'[c].messages
              IN  /\ h = Append(conversation_history, Message("user", calls[c].query))
                  /\ Len(msgs) = k + 1
                  /\ msgs[1] = Message("system", SystemPrompt)
                  /\ \A i \in 1..k : msgs[1 + i] = h[n - k + i]
                  /\ msgs[Len(msgs)] = Message("user", calls[c].query)]_vars

\* C22's case: a call has built its prompt from a context of 11 messages,
\* an assistant reply among them: the oldest message is left out.
C22_Witness ==
    \E c \in Calls :
        /\ calls[c].pc = "connecting"
        /\ Len(conversation_history) = 11
        /\ Len(calls[c].messages) = 11
        /\ NumAssistant(conversation_history) >= 1
        /\ calls[c].messages[2] = conversation_history[2]

\* ------------------------------------------------- properties: router
\* The task type is a stable argmax of the match counts: GENERAL when all
\* are 0; else a category of the highest count, the earliest such in the
\* declared order.
StableArgMax(scores, task_type) ==
    LET Categories == {"code", "research", "planning", "quick"}
        Rank(k) == CHOOSE i \in 1..Len(TaskTypes) : TaskTypes[i] = k
    IN  IF \A k \in Categories : scores[k] = 0
        THEN task_type = "general"
        ELSE /\ task_type \in Categories
             /\ \A k \in Categories : scores[k] <= scores[task_type]
             /\ \A k \in Categories :
                    Rank(k) < Rank(task_type) => scores[k] < scores[task_type]

\* C23: select_model returns the name and role of the descriptor under
\* "default" for every query, or, without a "default", of the registry's
\* first entry for every query; two queries get the same model whatever their
\* task types; the returned task type is analyze_intent(query).
C23_AlwaysDefaultModel ==
    /\ \A i \in DOMAIN router.routed :
           LET res == router.routed[i].result
               keys == {router.models[j].key : j \in DOMAIN router.models}
           IN  /\ "default" \in keys =>
                      /\ res.name = Descriptor("default").name
                      /\ res.role = Descriptor("default").role
               /\ "default" \notin keys =>
                      /\ res.name = router.models[1].name
                      /\ res.role = router.models[1].role
               /\ res.task_type = analyze_intent(router.routed[i].query)
    /\ \A i, j \in DOMAIN router.routed :
           /\ router.routed[i].result.name = router.routed[j].result.name
           /\ router.routed[i].result.role = router.routed[j].result.role

\* C23's case: a router whose registry holds "default" after another entry
\* was asked about a code query and a quick one.
C23_Witness ==
    /\ Len(router.models) = 2
    /\ router.models[2].key = "default"
    /\ Len(router.routed) = 2
    /\ router.routed[1].result.task_type = "code"
    /\ router.routed[2].result.task_type = "quick"

C26_FailureLeavesStore ==
    [][\A c \in Conns :
          (conns[c].op \in {"create", "add", "delete", "clear"}
           /\ conns'[c] # conns[c]) =>
              /\ conns[c].pc # "commit" => db' = db
              /\ (conns[c].pc \in {"s1", "s2", "s3"} /\ conns'[c].pc = "idle") =>
                     /\ conns'[c] = IdleConn
                     /\ wlock' = IF wlock = c THEN 0 ELSE wlock
              /\ (conns[c].pc = "commit" /\ conns'[c].pc = "idle") =>
                     /\ db' = db \/ db' = conns[c].work
                     /\ wlock' = 0]_vars

\* C26's case: an add_message has inserted its message row and holds the
\* write lock, its index entry and counter update still to come, while
\* another add_message waits for the lock: either may now fail.
C26_Witness ==
    \E c, o \in Conns :
        /\ c # o
        /\ conns[o].op = "add" /\ conns[o].pc = "s2" /\ wlock = o
        /\ Len(conns[o].work.messages) = Len(db.messages) + 1
        /\ conns[c].op = "add" /\ conns[c].pc = "s1"

\* C27: a conversation is created implicitly on its first message, so no
\* message is persisted without a parent conversation row, and
\* get_conversation finds the conversation of every persisted message.
C27_ImplicitCreation ==
    \A i \in DOMAIN db.messages :
        db.messages[i].conversation_id \in DOMAIN db.conversations

\* Conversation b's most recent append or creation is known to have committed
\* before conversation a's most recent append: b's last append has a smaller
\* message id, or b has no append and was created before a.
Earlier(d, b, a) ==
    /\ a # b
    /\ d.conversations[a].message_count >= 1
    /\ IF d.conversations[b].message_count >= 1
       THEN LatestOf(d, b).id < LatestOf(d, a).id
       ELSE b < a

\* Conversation a stands before conversation b in the list, if b is in it.
ListedBefore(r, a, b) ==
    \A j \in DOMAIN r : r[j].id = b => \E i \in 1..(j - 1) : r[i].id = a

\* C28: get_conversations(limit) returns at most limit conversations in
\* non-increasing updated_at order, and a conversation whose last append
\* committed after another's last append or creation is listed before it.
C28_ListNewestFirst ==
    \A c \in Conns :
        conns[c].pc = "l1" =>
            \A r \in ListResults(c) :
                /\ Len(r) <= conns[c].limit
                /\ \A i \in 1..(Len(r) - 1) : r[i].updated_at >= r[i + 1].updated_at
                /\ \A a, b \in DOMAIN db.conversations :
                       Earlier(db, b, a) => ListedBefore(r, a, b)

\* C28 but for conversations updated within one second: the list is cut at
\* the limit and ordered, updated_at never decreases with the commit order,
\* and a conversation updated in a later second is listed first.
C28_SecondsPart ==
    \A c \in Conns :
        conns[c].pc = "l1" =>
            \A r \in ListResults(c) :
                /\ Len(r) <= conns[c].limit
                /\ \A i \in 1..(Len(r) - 1) : r[i].updated_at >= r[i + 1].updated_at
                /\ \A a, b \in DOMAIN db.conversations :
                       Earlier(db, b, a) =>
                           /\ db.conversations[b].updated_at <= db.conversations[a].updated_at
                           /\ db.conversations[b].updated_at < db.conversations[a].updated_at
                                  => ListedBefore(r, a, b)

\* A list is about to be read while the conversation created first was
\* appended to in a later second than the other one was created.
C28_SecondsPartCase ==
    \E c \in Conns :
        /\ conns[c].pc = "l1"
        /\ \E a, b \in DOMAIN db.conversations :
              /\ a < b /\ Earlier(db, b, a) /\ db.conversations[b].message_count >= 1
              /\ db.conversations[b].updated_at < db.conversations[a].updated_at

\* C29: add_message calls on different conversations do not serialize: while
\* one is in the middle of its transaction, another one, on a different
\* conversation, can run its first statement without waiting or failing.
C29_NoSerialization ==
    \A c, o \in Conns :
        (/\ c # o
         /\ conns[c].op = "add" /\ conns[c].pc = "s1"
         /\ conns[o].op = "add" /\ conns[o].pc \in {"s2", "s3", "commit"}
         /\ conns[c].cid # conns[o].cid
         /\ conns[c].cid \in DOMAIN db.conversations
         /\ conns[o].cid \in DOMAIN db.conversations) =>
            ENABLED StoreStep1(c)

\* ------------------------------------------------ properties: status check
\* The availability flags hold one flag per configured model, true exactly
\* when the model's name is in the backend's list.
FlagsRight(flags, registry, names) ==
    /\ Cardinality(flags) = Len(registry)
    /\ \A i \in DOMAIN registry :
           \E f \in flags :
               /\ f[1] = registry[i].key
               /\ f[2] <=> (\E j \in DOMAIN names : names[j] = registry[i].name)

\* C30: check_ollama_status never raises: it returns offline for a
\* connection failure, a timeout or an unreadable response, error for a
\* status other than 200, and online with the availability flags for a 200
\* response; it sends one request and changes no orchestrator state.
C30_StatusNeverRaises ==
    /\ [](probe.pc = "done" =>
            LET response == probe.response[1]
                res == probe.result[1]
            IN  /\ res.status \in {"online", "offline", "error"}
                /\ response.kind \in {"connect_error", "timeout"} => res.status = "offline"
                /\ (response.kind = "http" /\ response.status # 200) => res.status = "error"
                /\ (response.kind = "http" /\ response.status = 200
                    /\ response.body # "tags") => res.status = "offline"
                /\ (response.kind = "http" /\ response.status = 200
                    /\ response.body = "tags") =>
                       /\ res.status = "online"
                       /\ FlagsRight(res.models_available, router.models, response.names)
                /\ probe.requests = 1)
    /\ [][probe' # probe =>
             /\ conversation_history' = conversation_history
             /\ current_model' = current_model
             /\ calls' = calls
             /\ router' = router]_vars

\* C30's case: the backend answered 200 with a list that holds one of the
\* two configured models.
C30_Witness ==
    /\ probe.pc = "done"
    /\ probe.response[1].status = 200
    /\ probe.response[1].body = "tags"
    /\ Len(router.models) = 2
    /\ probe.result[1].status = "online"
    /\ \E f, g \in probe.result[1].models_available : f[2] /\ ~g[2]

\* ------------------------------------------- properties: generator, II
\* C31: the first terminal frame ends the turn: a call appends at most one
\* assistant message and emits at most one Complete event, and no Content
\* or Complete event follows a Complete.
C31_FirstTerminalEnds ==
    \A c \in Calls :
        /\ calls[c].appended <= 1
        /\ NumEvents(calls[c].events, {"complete"}) <= 1
        /\ \A i, j \in DOMAIN calls[c].events :
               (i < j /\ calls[c].events[i].type = "complete") =>
                   calls[c].events[j].type \notin {"content", "complete"}

\* The call of the session ended with an Error event: the generator was
\* resumed after yielding the error, or was left there.
EndedWithError(call) ==
    /\ call.pc \in {"finished", "closed"}
    /\ call.events # <<>>
    /\ call.events[Len(call.events)].type = "error"

\* The context is the one the call sent to the backend: the context before
\* the call followed by the call's user query, nothing after it.
OnlyUserTurnAdded(call) ==
    /\ conversation_history # <<>>
    /\ conversation_history[Len(conversation_history)] = Message("user", call.query)
    /\ prepare_messages(conversation_history) = call.messages
    /\ call.appended = 0

\* The prompt built after a failed turn ends with two user messages.
TwoUserTurns(call) ==
    /\ Len(call.messages) >= 3
    /\ call.messages[Len(call.messages) - 1].role = "user"
    /\ call.messages[Len(call.messages)].role = "user"

\* The step in which a call builds its prompt while the context ends with
\* the user turn of a failed call.
PromptAfterFailure ==
    /\ calls[Session].pc = "at_model_selected"
    /\ calls'[Session].pc = "connecting"
    /\ conversation_history # <<>>
    /\ conversation_history[Len(conversation_history)].role = "user"

\* C32: a generate call that ends with an Error event leaves the context
\* equal to the context before the call followed by exactly the call's user
\* query, and the next call's prompt has two consecutive user messages.
C32_ErrorKeepsUserTurn ==
    /\ [](EndedWithError(calls[Session]) => OnlyUserTurnAdded(calls[Session]))
    /\ [][PromptAfterFailure => TwoUserTurns(calls'[Session])]_vars

\* The part of C32 that holds: the same for a call that processed no
\* terminal frame before it failed.
C32_NoTerminalPart ==
    /\ []((EndedWithError(calls[Session]) /\ calls[Session].n_done = 0)
              => OnlyUserTurnAdded(calls[Session]))
    /\ [][PromptAfterFailure => TwoUserTurns(calls'[Session])]_vars

C32_NoTerminalPartCase ==
    /\ TwoUserTurns(calls[Session])
    /\ calls[Session].pc = "connecting"
    /\ Len(conversation_history) >= 3

\* The step in which call c is handed a line that is JSON of another shape.
TakesBadShape(c) == calls'[c].n_badshape = calls[c].n_badshape + 1

\* C33: a line that parses as JSON but has not the expected shape is not
\* skipped: it ends the turn with a single Error event, no later frame is
\* processed, and the line appends no assistant message.
C33_BadShapeEndsTurn ==
    /\ [][\A c \in Calls :
             TakesBadShape(c) =>
                 /\ calls'[c].pc = "at_error"
                 /\ calls'[c].events = Append(calls[c].events, Error(calls[c].model_name))
                 /\ ~calls'[c].stream_open
                 /\ calls'[c].appended = calls[c].appended
                 /\ conversation_history' = conversation_history]_vars
    /\ [](\A c \in Calls :
             calls[c].n_badshape >= 1 =>
                 /\ calls[c].n_badshape = 1
                 /\ calls[c].pc \in {"at_error", "finished", "closed"}
                 /\ NumEvents(calls[c].events, {"error"}) = 1
                 /\ calls[c].events[Len(calls[c].events)].type = "error")

C33_Witness ==
    \E c \in Calls :
        /\ calls[c].n_badshape = 1
        /\ calls[c].pc = "finished"
        /\ calls[c].n_done = 0
        /\ linesLeft >= 1
        /\ Len(calls[c].events) = 2
        /\ conversation_history = <<Message("user", calls[c].query)>>

\* The step in which call c appends its assistant message to the context.
AppendsAssistant(c) == calls'[c].appended = calls[c].appended + 1

\* C34: every assistant message in the context is preceded in the context
\* by the user query of the generate call that produced it, under every
\* interleaving of generate calls with resets and with other generate calls.
C34_AssistantAfterItsQuery ==
    [][\A c \in Calls :
         AppendsAssistant(c) =>
             \E j \in DOMAIN conversation_history :
                 /\ conversation_history[j] = Message("user", calls[c].query)
                 /\ conversation_history'[j] = conversation_history[j]
                 /\ conversation_history'[Len(conversation_history')].role = "assistant"
                 /\ j < Len(conversation_history')]_vars

\* ----------------------------------------------- properties: store, II
\* The step in which create_conversation on connection c commits and
\* returns cursor.lastrowid.
CreateReturns(c) ==
    /\ conns[c].op = "create"
    /\ conns[c].pc = "commit"
    /\ conns'[c].pc = "idle"
    /\ db' = conns[c].work
    /\ db' # db

\* Every id returned so far is at most the committed sequence value, which
\* never decreases, and a create returns an id above it.
FreshId(c) ==
    /\ conns[c].result[1] > db.conv_seq
    /\ conns[c].result[1] = db'.conv_seq
    /\ conns[c].result[1] \notin DOMAIN db.conversations

SequenceGrows ==
    /\ db'.conv_seq >= db.conv_seq
    /\ \A cid \in DOMAIN db'.conversations : cid <= db'.conv_seq

\* C35: createConversation never returns an id that an earlier
\* createConversation returned, also after a delete or a clear; hence no
\* message and no index entry is attached to a conversation when it is
\* created.
C35_IdsNeverReused ==
    [][/\ SequenceGrows
       /\ \A c \in Conns :
              CreateReturns(c) =>
                  /\ FreshId(c)
                  /\ NumMsgs(db', conns[c].result[1]) = 0
                  /\ NumIndexed(db', conns[c].result[1]) = 0]_vars

\* The part of C35 that holds: no id is returned twice.
C35_IdsPart ==
    [][/\ SequenceGrows
       /\ \A c \in Conns : CreateReturns(c) => FreshId(c)]_vars

\* Its case: a conversation was created and deleted, and a later create
\* returned another id.
C35_IdsPartCase ==
    /\ db.conv_seq = 2
    /\ DOMAIN db.conversations = {2}

====
